---- MODULE Spec2Model ----
(***************************************************************************)
(* Model of src/main.py: a Flask chat front-end that keeps a per-session   *)
(* transcript in the session cookie and forwards each question to the      *)
(* hosted Responses API, optionally with file search over a vector store.  *)
(*                                                                         *)
(* Text is a sequence of string tokens, so that str.strip(), the           *)
(* substring test "Sources:" in text and the formatted Sources block are   *)
(* computed as the code computes them.  An optional value (Python None or  *)
(* a value) is the empty sequence or a one-element sequence.               *)
(***************************************************************************)
EXTENDS Integers, Sequences, FiniteSets, TLC

VARIABLES
    session,            \* the Flask session (the signed cookie the browser holds)
    VECTOR_STORE_BRD,   \* environment, read once at import
    VECTOR_STORE_FSD,
    tool_resources_ok,  \* whether the installed SDK accepts tool_resources=
    clock,              \* the wall clock read by _now_iso
    stored,             \* API side: response id -> the source of its chain's system prompt
    inflight,           \* requests being handled: slot -> handler-local state
    pre,                \* history: the session as the last request found it
    last                \* history: the last request handled and what it did

vars == <<session, VECTOR_STORE_BRD, VECTOR_STORE_FSD, tool_resources_ok,
          clock, stored, inflight, pre, last>>

\* ------------------------------------------------------------------ bounds
MaxClock == 5       \* _now_iso is read at most this many times
MaxExtractAnns == 3 \* annotations in one response given to the extractor alone
MaxInFlight == 2    \* requests of one session the threaded server handles at once

\* --------------------------------------------------------- optional values
None == <<>>
Some(x) == <<x>>

\* ------------------------------------------------------------------- text
Whitespace == {" ", "\n", "\n\n"}

RECURSIVE lstrip(_)
lstrip(s) ==
    IF s # <<>> /\ Head(s) \in Whitespace THEN lstrip(Tail(s)) ELSE s

RECURSIVE rstrip(_)
rstrip(s) ==
    IF s # <<>> /\ s[Len(s)] \in Whitespace
    THEN rstrip(SubSeq(s, 1, Len(s) - 1)) ELSE s

\* str.strip()
strip(s) == rstrip(lstrip(s))

\* needle in text, for a one-token needle
Contains(text, needle) == \E i \in 1..Len(text) : text[i] = needle

OUT_OF_SCOPE == <<"This question appears to be outside the scope of the BRDs and FSDs.">>
NO_TEXT == <<"I didn't receive any text in the response.">>

\* ---------------------------------------------------------------- helpers
\* session.get("chat", [])
Chat(sess) == IF "chat" \in DOMAIN sess THEN sess.chat ELSE <<>>

_ensure_history(sess) ==
    IF "chat" \notin DOMAIN sess
    THEN [k \in DOMAIN sess \cup {"chat"} |-> IF k = "chat" THEN <<>> ELSE sess[k]]
    ELSE sess

_ensure_source(sess) ==
    IF "source" \notin DOMAIN sess
    THEN [k \in DOMAIN sess \cup {"source"} |-> IF k = "source" THEN "brd" ELSE sess[k]]
    ELSE sess

_get_system_prompt(source) ==
    IF source = "brd"
    THEN [doc_type |-> "Business Requirements Documents (BRDs) in Arabic",
          scope_msg |-> "This question appears to be outside the scope of the BRDs."]
    ELSE [doc_type |-> "Functional Specification Documents (FSDs) in English",
          scope_msg |-> "This question appears to be outside the scope of the FSDs."]

\* The source a system prompt names.
PromptSource(prompt) ==
    IF prompt = _get_system_prompt("brd") THEN "brd" ELSE "fsd"

\* --------------------------------------------------------------- the API
\* getattr(obj, name, default)
getattr(obj, name, default) == IF name \in DOMAIN obj THEN obj[name] ELSE default

\* Python truthiness of a page: None and 0 are falsy
Truthy(page) == page # None /\ page[1] # 0

\* The annotations of all blocks of all items of resp.output, in loop order
\* (the three nested for loops of _extract_text_and_sources).
RECURSIVE BlockAnnotations(_)
BlockAnnotations(content) ==
    IF content = <<>> THEN <<>>
    ELSE getattr(Head(content), "annotations", <<>>) \o BlockAnnotations(Tail(content))

RECURSIVE OutputAnnotations(_)
OutputAnnotations(output) ==
    IF output = <<>> THEN <<>>
    ELSE BlockAnnotations(getattr(Head(output), "content", <<>>))
         \o OutputAnnotations(Tail(output))

\* sources.append({...}) for every file_citation annotation
RECURSIVE FileCitations(_)
FileCitations(anns) ==
    IF anns = <<>> THEN <<>>
    ELSE LET ann == Head(anns) IN
         (IF getattr(ann, "type", "None") = "file_citation"
          THEN <<[filename |-> getattr(ann, "filename", "file"),
                  page |-> getattr(ann, "page", None)]>>
          ELSE <<>>) \o FileCitations(Tail(anns))

\* DeDupe with the page left out of the key
RECURSIVE DeDupeByFilename(_, _, _)
DeDupeByFilename(sources, seen, uniq) ==
    IF sources = <<>> THEN uniq
    ELSE LET s == Head(sources)
             key == s.filename
         IN  IF key \notin seen
             THEN DeDupeByFilename(Tail(sources), seen \cup {key}, Append(uniq, s))
             ELSE DeDupeByFilename(Tail(sources), seen, uniq)

\* the "de-dupe" loop: seen is a set of (filename, page) keys
RECURSIVE DeDupe(_, _, _)
DeDupe(sources, seen, uniq) ==
    IF sources = <<>> THEN uniq
    ELSE LET s == Head(sources)
             key == <<s.filename, s.page>>
         IN  IF key \notin seen
             THEN DeDupe(Tail(sources), seen \cup {key}, Append(uniq, s))
             ELSE DeDupe(Tail(sources), seen, uniq)

\* f"{i}. {s['filename']}{page}\n"
SourceLine(i, s) ==
    <<ToString(i), ". ", s.filename>>
    \o (IF Truthy(s.page) THEN <<", p.", ToString(s.page[1])>> ELSE <<>>)
    \o <<"\n">>

RECURSIVE SourceLines(_, _)
SourceLines(uniq, i) ==
    IF i > Len(uniq) THEN <<>>
    ELSE SourceLine(i, uniq[i]) \o SourceLines(uniq, i + 1)

_extract_text_and_sources(resp) ==
    LET text == getattr(resp, "output_text", <<>>)
        sources == FileCitations(OutputAnnotations(resp.output))
        uniq == DeDupe(sources, {}, <<>>)
    IN  IF uniq # <<>>
        THEN text \o <<"\n\n", "Sources:", "\n">> \o SourceLines(uniq, 1)
        ELSE text

\* AssistantText without the empty-text fallback
AssistantTextNoFallback(has_store, resp) ==
    LET extracted == _extract_text_and_sources(resp)
    IN  IF has_store /\ ~Contains(extracted, "Sources:")
        THEN OUT_OF_SCOPE ELSE extracted

\* AssistantText with the out-of-scope test not guarded by has_store
AssistantTextScopedAlways(has_store, resp) ==
    LET extracted == _extract_text_and_sources(resp)
        scoped == IF ~Contains(extracted, "Sources:") THEN OUT_OF_SCOPE ELSE extracted
    IN  IF strip(scoped) = <<>> THEN NO_TEXT ELSE scoped

\* ask, step 6: the text of the assistant turn
AssistantText(has_store, resp) ==
    LET extracted == _extract_text_and_sources(resp)
        scoped == IF has_store /\ ~Contains(extracted, "Sources:")
                  THEN OUT_OF_SCOPE ELSE extracted
    IN  IF strip(scoped) = <<>> THEN NO_TEXT ELSE scoped

\* ScanBack without reversed(): the oldest assistant turn with a response id
ScanForward(chat, i) ==
    LET hits == {j \in 1..i : chat[j].role = "assistant"
                              /\ getattr(chat[j], "response_id", "") # ""}
    IN  IF hits = {} THEN None
        ELSE Some(chat[CHOOSE j \in hits : \A k \in hits : j <= k].response_id)

\* for msg in reversed(chat): the first assistant turn with a response id
RECURSIVE ScanBack(_, _)
ScanBack(chat, i) ==
    IF i = 0 THEN None
    ELSE IF chat[i].role = "assistant" /\ getattr(chat[i], "response_id", "") # ""
         THEN Some(chat[i].response_id)
         ELSE ScanBack(chat, i - 1)

_get_last_response_id(sess) == ScanBack(Chat(sess), Len(Chat(sess)))

\* _iso_to_local: the stored UTC instant, labelled in Qatar local time
_iso_to_local(ts) == <<"UTC+03:00", ts>>

\* home: the messages handed to the template
Messages(sess) ==
    [i \in 1..Len(Chat(sess)) |->
        [role |-> Chat(sess)[i].role,
         text |-> Chat(sess)[i].text,
         time |-> _iso_to_local(Chat(sess)[i].time)]]

\* ---------------------------------------------------------- ask, in parts
\* session[key] = value
SetItem(sess, key, value) ==
    [k \in DOMAIN sess \cup {key} |-> IF k = key THEN value ELSE sess[k]]

\* AskUserTurn that assigns a new list instead of appending
AskUserTurnFresh(sess, q, now) ==
    LET s1 == _ensure_source(_ensure_history(sess))
    IN  SetItem(s1, "chat", <<[role |-> "user", text |-> q, time |-> now]>>)

\* step 1: _ensure_history, _ensure_source, chat.append(user turn)
AskUserTurn(sess, q, now) ==
    LET s1 == _ensure_source(_ensure_history(sess))
    IN  SetItem(s1, "chat",
                Append(s1.chat, [role |-> "user", text |-> q, time |-> now]))

\* step 2
VectorStoreId(source) ==
    IF source = "brd" THEN VECTOR_STORE_BRD ELSE VECTOR_STORE_FSD

\* steps 3-5: input_content is a message list (messages) or the bare
\* question (text); previous_response_id is a key of kwargs only for a
\* follow-up
AskKwargs(sess, q) ==
    LET previous_response_id == _get_last_response_id(sess)
        input_content ==
            IF previous_response_id = None
            THEN [messages |->
                    <<[role |-> "system", content |-> _get_system_prompt(sess.source)],
                      [role |-> "user", content |-> q]>>]
            ELSE [text |-> q]
        kwargs == [model |-> "MODEL", input |-> input_content, store |-> TRUE]
    IN  IF previous_response_id # None
        THEN kwargs @@ ("previous_response_id" :> previous_response_id[1])
        ELSE kwargs

\* the client.responses.create calls of one ask, in order; with a store and
\* an SDK that rejects tool_resources the first raises TypeError and the
\* second is made
AskCalls(kwargs, vector_store_id) ==
    IF vector_store_id # ""
    THEN LET modern == kwargs
                @@ ("tools" :> <<[type |-> "file_search"]>>)
                @@ ("tool_resources" :>
                      [file_search |-> [vector_store_ids |-> <<vector_store_id>>]])
             older == kwargs
                @@ ("tools" :> <<[type |-> "file_search",
                                  vector_store_ids |-> <<vector_store_id>>]>>)
         IN  IF tool_resources_ok THEN <<modern>> ELSE <<modern, older>>
    ELSE <<kwargs>>

\* steps 6-7
AskReply(sess, has_store, resp, now) ==
    SetItem(sess, "chat",
            Append(sess.chat,
                   [role |-> "assistant",
                    text |-> AssistantText(has_store, resp),
                    time |-> now,
                    response_id |-> resp.id]))

\* API side: the system prompt source governing the chain a request joins
ChainOf(kwargs) ==
    IF "previous_response_id" \in DOMAIN kwargs
    THEN stored[kwargs.previous_response_id]
    ELSE PromptSource(kwargs.input.messages[1].content)

\* the opaque id of the next response the API creates
NextId == "resp_" \o ToString(Cardinality(DOMAIN stored) + 1)

\* ------------------------------------------------------------ input sets
\* request.form q, before strip
RawInputs == { <<>>, <<" ">>, <<" ", "what", " ", "next", "\n">> }

Seqs(S, n) == UNION {[1..k -> S] : k \in 0..n}

UrlCitation == [type |-> "url_citation", url |-> "https://example.org"]
FileCitation(filename) == [type |-> "file_citation", filename |-> filename]

\* the annotation lists of the answers to chat turns
ChatAnnotationLists ==
    { <<>>, <<UrlCitation>>, <<FileCitation("brd.pdf")>>,
      <<FileCitation("brd.pdf"), UrlCitation, FileCitation("brd.pdf")>> }

OutputTexts == { <<>>, <<" ">>, <<"hi">>, <<"see", " ", "Sources:", " ", "none">> }

\* what the API may answer to one chat turn (its id is given on creation)
ChatResponses ==
    { [output_text |-> t,
       output |-> <<[type |-> "message",
                     content |-> <<[type |-> "output_text", annotations |-> a]>>]>>] :
        t \in OutputTexts, a \in ChatAnnotationLists }

\* ------------------------------------------------------------------ Init
Idle == [pc |-> "idle"]

Init ==
    /\ session = <<>>
    /\ VECTOR_STORE_BRD \in {"", "vs_brd"}
    /\ VECTOR_STORE_FSD \in {"", "vs_fsd"}
    /\ tool_resources_ok \in BOOLEAN
    /\ clock = 0
    /\ stored = <<>>
    /\ inflight = [r \in 1..MaxInFlight |-> Idle]
    /\ pre = <<>>
    /\ last = [op |-> "init"]

env == <<VECTOR_STORE_BRD, VECTOR_STORE_FSD, tool_resources_ok>>

\* ---------------------------------------------------------------- routes
home ==
    /\ pre' = session
    /\ session' = _ensure_source(_ensure_history(session))
    /\ last' = [op |-> "home",
                messages |-> Messages(session'),
                source |-> session'.source]
    /\ UNCHANGED <<env, clock, stored, inflight>>

\* toggle_source that rebuilds the session around the new source
toggle_source_fresh ==
    LET s1 == _ensure_source(session)
    IN  /\ pre' = session
        /\ session' = [source |-> IF s1.source = "brd" THEN "fsd" ELSE "brd"]
        /\ last' = [op |-> "toggle_source"]
        /\ UNCHANGED <<env, clock, stored, inflight>>

toggle_source ==
    LET s1 == _ensure_source(session)
    IN  /\ pre' = session
        /\ session' = SetItem(s1, "source", IF s1.source = "brd" THEN "fsd" ELSE "brd")
        /\ last' = [op |-> "toggle_source"]
        /\ UNCHANGED <<env, clock, stored, inflight>>

\* reset that pops the wrong key
reset_pops_source ==
    /\ pre' = session
    /\ session' = [k \in DOMAIN session \ {"source"} |-> session[k]]
    /\ last' = [op |-> "reset"]
    /\ UNCHANGED <<env, clock, stored, inflight>>

\* session.pop("chat", None)
reset ==
    /\ pre' = session
    /\ session' = [k \in DOMAIN session \ {"chat"} |-> session[k]]
    /\ last' = [op |-> "reset"]
    /\ UNCHANGED <<env, clock, stored, inflight>>

\* One whole /ask request.  Its outcomes: the early return on blank input;
\* the API answers; the API call raises, and the session, already holding
\* the user turn, is saved with the error response.
ask ==
    \E raw \in RawInputs :
        LET q == strip(raw)
            s1 == AskUserTurn(session, q, clock)
            source == s1.source
            vector_store_id == VectorStoreId(source)
            kwargs == AskKwargs(s1, q)
            calls == AskCalls(kwargs, vector_store_id)
            sent == [op |-> "ask", raw |-> raw, q |-> q, source |-> source,
                     vector_store_id |-> vector_store_id,
                     calls |-> calls, chain |-> ChainOf(kwargs)]
        IN  /\ pre' = session
            /\ UNCHANGED <<env, inflight>>
            /\ \/ /\ q = <<>>
                  /\ last' = [op |-> "ask", raw |-> raw, q |-> q, outcome |-> "blank"]
                  /\ UNCHANGED <<session, clock, stored>>
               \/ /\ q # <<>>
                  /\ clock + 2 <= MaxClock
                  /\ \E r \in ChatResponses :
                        LET resp == r @@ ("id" :> NextId)
                        IN  /\ session' = AskReply(s1, vector_store_id # "", resp, clock + 1)
                            /\ last' = sent @@ [outcome |-> "answered", resp |-> resp]
                  /\ stored' = stored @@ (NextId :> ChainOf(kwargs))
                  /\ clock' = clock + 2
               \/ /\ q # <<>>
                  /\ clock + 1 <= MaxClock
                  /\ session' = s1
                  /\ last' = sent @@ [outcome |-> "raised"]
                  /\ clock' = clock + 1
                  /\ UNCHANGED stored

Next == home \/ toggle_source \/ ask \/ reset

Spec == Init /\ [][Next]_vars

\* ------------------------------------------- the handlers, run overlapped
\* app.run serves each request on its own thread and the code takes no lock:
\* a handler works on the session its request carried and the browser keeps
\* the session of the response it received last.
ConcResponses ==
    { [output_text |-> <<"hi">>,
       output |-> <<[type |-> "message",
                     content |-> <<[type |-> "output_text", annotations |-> a]>>]>>] :
        a \in {<<>>, <<FileCitation("brd.pdf")>>} }

Called == {r \in DOMAIN inflight : inflight[r].pc = "called"}

\* ask up to the client.responses.create call
ask_begin(r) ==
    \E raw \in RawInputs :
        LET q == strip(raw)
            s1 == AskUserTurn(session, q, clock)
            kwargs == AskKwargs(s1, q)
        IN  /\ inflight[r].pc = "idle"
            /\ q # <<>>
            /\ clock + 2 * (Cardinality(Called) + 1) <= MaxClock
            /\ inflight' = [inflight EXCEPT ![r] =
                    [pc |-> "called", session |-> s1, q |-> q, kwargs |-> kwargs,
                     vector_store_id |-> VectorStoreId(s1.source)]]
            /\ clock' = clock + 1
            /\ last' = [op |-> "ask_begin", slot |-> r]
            /\ UNCHANGED <<session, env, stored, pre>>

\* ask from the API's answer to the response that carries the session back
ask_end(r) ==
    /\ inflight[r].pc = "called"
    /\ \E a \in ConcResponses :
          LET resp == a @@ ("id" :> NextId)
              mine == inflight[r]
          IN  /\ session' = AskReply(mine.session, mine.vector_store_id # "", resp, clock)
              /\ last' = [op |-> "ask_end", slot |-> r, resp |-> resp]
    /\ stored' = stored @@ (NextId :> ChainOf(inflight[r].kwargs))
    /\ inflight' = [inflight EXCEPT ![r] = Idle]
    /\ clock' = clock + 1
    /\ pre' = session
    /\ UNCHANGED env

NextConc ==
    \/ \E r \in DOMAIN inflight : ask_begin(r)
    \/ \E r \in DOMAIN inflight : ask_end(r)

SpecConc == Init /\ [][NextConc]_vars

\* ---------------------------------------- the extractor on its own inputs
ExtractAnnotations ==
    { UrlCitation,
      [type |-> "file_citation"],
      FileCitation("brd.pdf"),
      FileCitation("brd.pdf") @@ [page |-> Some(0)],
      FileCitation("brd.pdf") @@ [page |-> Some(2)],
      FileCitation("fsd.pdf") @@ [page |-> Some(2)] }

\* a response whose annotations a are spread over its items and blocks
Spread(t, a, k) ==
    [output_text |-> t,
     output |-> <<[type |-> "file_search_call"],
                  [type |-> "message",
                   content |-> <<[type |-> "output_text",
                                  annotations |-> SubSeq(a, 1, k)]>>],
                  [type |-> "message",
                   content |-> <<[type |-> "refusal"],
                                 [type |-> "output_text",
                                  annotations |-> SubSeq(a, k + 1, Len(a))]>>]>>]

ExtractResponses ==
    { Spread(x[1], x[2], x[3]) @@ [id |-> "resp_1"] :
        x \in { y \in {<<>>, <<"hi">>} \X Seqs(ExtractAnnotations, MaxExtractAnns) \X {0, 1} :
                    y[3] <= Len(y[2]) } }

InitExtract ==
    /\ session = <<>>
    /\ VECTOR_STORE_BRD = ""
    /\ VECTOR_STORE_FSD = ""
    /\ tool_resources_ok = TRUE
    /\ clock = 0
    /\ stored = <<>>
    /\ inflight = [r \in 1..MaxInFlight |-> Idle]
    /\ pre = <<>>
    /\ last \in {[op |-> "response", resp |-> r] : r \in ExtractResponses}

extract ==
    /\ last.op = "response"
    /\ last' = [op |-> "extract", resp |-> last.resp,
                text |-> _extract_text_and_sources(last.resp)]
    /\ UNCHANGED <<session, env, clock, stored, inflight, pre>>

SpecExtract == InitExtract /\ [][extract]_vars

\* ================================================================ claims
LastTurn == Chat(session)[Len(Chat(session))]

IsPrefix(s, t) == Len(s) <= Len(t) /\ SubSeq(t, 1, Len(s)) = s

\* the source a request finds selected (brd until one is stored)
SelectedSource(sess) == IF "source" \in DOMAIN sess THEN sess.source ELSE "brd"

\* the store configured for the source a request finds selected
ConfiguredStore(sess) ==
    IF SelectedSource(sess) = "brd" THEN VECTOR_STORE_BRD ELSE VECTOR_STORE_FSD

Asked == last.op = "ask" /\ last.outcome # "blank"
Answered == last.op = "ask" /\ last.outcome = "answered"

\* the file_citation annotations of a response, wherever they sit
CitationsOf(resp) ==
    SelectSeq(OutputAnnotations(resp.output),
              LAMBDA ann : "type" \in DOMAIN ann /\ ann.type = "file_citation")

Blank(text) == \A i \in 1..Len(text) : text[i] \in Whitespace

\* C1: after reset the session transcript is empty, whatever it held and
\* whichever source is selected: home shows no messages,
\* _get_last_response_id returns None, and the next ask is sent as the first
\* turn of a new conversation (system prompt, no previous_response_id).
ResetClearsHistory ==
    last.op = "reset" =>
        /\ Chat(session) = <<>>
        /\ Messages(_ensure_source(_ensure_history(session))) = <<>>
        /\ _get_last_response_id(session) = None
        /\ LET kwargs == AskKwargs(AskUserTurn(session, <<"what">>, clock), <<"what">>)
           IN  /\ "previous_response_id" \notin DOMAIN kwargs
               /\ "messages" \in DOMAIN kwargs.input
        /\ SelectedSource(session) = SelectedSource(pre)

ResetWitness ==
    /\ last.op = "reset"
    /\ Len(Chat(pre)) >= 4
    /\ _get_last_response_id(pre) # None
    /\ SelectedSource(pre) = "fsd"

\* C2: toggle_source leaves the transcript exactly as it found it (every
\* turn and their order) and changes only the source label, brd to fsd and
\* fsd to brd.
ToggleKeepsHistory ==
    last.op = "toggle_source" =>
        /\ ("chat" \in DOMAIN session) = ("chat" \in DOMAIN pre)
        /\ Chat(session) = Chat(pre)
        /\ DOMAIN session = DOMAIN pre \cup {"source"}
        /\ SelectedSource(pre) = "brd" => session.source = "fsd"
        /\ SelectedSource(pre) = "fsd" => session.source = "brd"

ToggleWitness ==
    /\ last.op = "toggle_source"
    /\ Len(Chat(pre)) >= 2
    /\ SelectedSource(pre) = "fsd"
    /\ session.source = "brd"

\* C3: ask, toggle_source and home only ever append to the transcript: the
\* transcript a request found is a prefix of the one it leaves; and an ask
\* with non-blank input that completes appends exactly two turns, the user
\* turn with the question and then the assistant turn with the answer and
\* the response's id.
TranscriptOrderingPreserved ==
    /\ last.op \in {"ask", "toggle_source", "home"} => IsPrefix(Chat(pre), Chat(session))
    /\ Answered =>
          LET n == Len(Chat(pre))
              chat == Chat(session)
          IN  /\ Len(chat) = n + 2
              /\ ~Blank(last.raw)
              /\ chat[n + 1].role = "user"
              /\ chat[n + 1].text = strip(last.raw)
              /\ "response_id" \notin DOMAIN chat[n + 1]
              /\ chat[n + 2].role = "assistant"
              /\ chat[n + 2].response_id = last.resp.id
              /\ chat[n + 2].text \in
                    {_extract_text_and_sources(last.resp), OUT_OF_SCOPE, NO_TEXT}
              /\ chat[n + 1].time <= chat[n + 2].time
    /\ (last.op = "ask" /\ Blank(last.raw)) => session = pre

OrderingWitness ==
    /\ Answered
    /\ Len(Chat(pre)) >= 3
    /\ Len(Chat(session)) = Len(Chat(pre)) + 2

\* C4: with a vector store configured for the selected source and no
\* file_citation annotation in the response, the assistant turn's text is
\* exactly the out-of-scope message, whatever text the model returned.
NoCitationIsOutOfScope ==
    (Answered /\ ConfiguredStore(pre) # "" /\ CitationsOf(last.resp) = <<>>)
        => LastTurn.text = OUT_OF_SCOPE

\* C5 as stated: every answer whose output text is empty or whitespace-only
\* is shown as the fallback message, with or without a vector store.
BlankAnswerIsFallback ==
    (Answered /\ Blank(last.resp.output_text)) => LastTurn.text = NO_TEXT

\* C5, amended: an answer whose output text is blank and that carries no
\* file_citation annotation is shown as the fallback message when no vector
\* store is configured for the selected source, and as the out-of-scope
\* message when one is.
BlankAnswerWithoutStoreIsFallback ==
    (Answered /\ Blank(last.resp.output_text) /\ CitationsOf(last.resp) = <<>>)
        => LastTurn.text = IF ConfiguredStore(pre) = "" THEN NO_TEXT ELSE OUT_OF_SCOPE

BlankAnswerWitness ==
    /\ Answered
    /\ last.resp.output_text = <<" ">>
    /\ CitationsOf(last.resp) = <<>>
    /\ ConfiguredStore(pre) = ""
    /\ LastTurn.text = NO_TEXT

\* C6: every ask with non-blank input sends one of two request shapes.  If
\* the transcript holds no assistant turn with a non-empty response id: the
\* system prompt of the selected source, then the question, and no
\* previous_response_id.  Otherwise: the question alone, and the response id
\* of the most recent assistant turn as previous_response_id.
AssistantTurns(chat) == {i \in 1..Len(chat) : chat[i].role = "assistant"}

RequestShape ==
    Asked =>
        LET chat == Chat(pre)
            withId == {i \in AssistantTurns(chat) :
                          "response_id" \in DOMAIN chat[i] /\ chat[i].response_id # ""}
            latest == CHOOSE i \in AssistantTurns(chat) :
                          \A j \in AssistantTurns(chat) : j <= i
        IN  /\ last.calls # <<>>
            /\ \A c \in 1..Len(last.calls) :
                  IF withId = {}
                  THEN /\ "previous_response_id" \notin DOMAIN last.calls[c]
                       /\ last.calls[c].input =
                            [messages |->
                               <<[role |-> "system",
                                  content |-> _get_system_prompt(SelectedSource(pre))],
                                 [role |-> "user", content |-> strip(last.raw)]>>]
                  ELSE /\ last.calls[c].input = [text |-> strip(last.raw)]
                       /\ "previous_response_id" \in DOMAIN last.calls[c]
                       /\ last.calls[c].previous_response_id = chat[latest].response_id

RequestShapeWitness ==
    /\ Asked
    /\ Cardinality(AssistantTurns(Chat(pre))) = 2
    /\ last.calls[1].previous_response_id = "resp_2"
    /\ last.calls[1].input = [text |-> <<"what", " ", "next">>]

\* C7: the Sources block lists each distinct (filename, page) pair of the
\* file_citation annotations exactly once, in order of first occurrence,
\* numbered from 1; without file_citation annotations the text is returned
\* with no Sources block.
PairOf(ann) == <<getattr(ann, "filename", "file"), getattr(ann, "page", None)>>

FirstAt(cites, pair) ==
    CHOOSE i \in 1..Len(cites) :
        /\ PairOf(cites[i]) = pair
        /\ \A j \in 1..(i - 1) : PairOf(cites[j]) # pair

RankOf(cites, pair) ==
    Cardinality({FirstAt(cites, PairOf(cites[j])) : j \in 1..FirstAt(cites, pair)})

RECURSIVE ListedFrom(_, _, _)
ListedFrom(cites, pairs, n) ==
    IF n > Cardinality(pairs) THEN <<>>
    ELSE LET pair == CHOOSE x \in pairs : RankOf(cites, x) = n
         IN  SourceLine(n, [filename |-> pair[1], page |-> pair[2]])
             \o ListedFrom(cites, pairs, n + 1)

SourcesDeDuplicated ==
    last.op = "extract" =>
        LET cites == CitationsOf(last.resp)
            pairs == {PairOf(cites[i]) : i \in 1..Len(cites)}
        IN  last.text =
                last.resp.output_text
                \o (IF cites = <<>> THEN <<>>
                    ELSE <<"\n\n", "Sources:", "\n">> \o ListedFrom(cites, pairs, 1))

SourcesWitness ==
    /\ last.op = "extract"
    /\ LET cites == CitationsOf(last.resp)
       IN  /\ Len(cites) = 3
           /\ PairOf(cites[1]) = PairOf(cites[3])
           /\ PairOf(cites[1]) # PairOf(cites[2])
           /\ Len(SelectSeq(last.text, LAMBDA tok : tok = ". ")) = 2

\* C8: with no vector store configured for the selected source, ask makes
\* one API call without the file_search tool, and the assistant turn
\* carries the returned text with its Sources block, unchanged: never the
\* out-of-scope message in its place, and the fallback message only for a
\* blank returned text.
NoStoreStillAnswers ==
    /\ (Asked /\ ConfiguredStore(pre) = "") =>
          /\ Len(last.calls) = 1
          /\ "tools" \notin DOMAIN last.calls[1]
          /\ "tool_resources" \notin DOMAIN last.calls[1]
    /\ (Answered /\ ConfiguredStore(pre) = "") =>
          LET returned == _extract_text_and_sources(last.resp)
          IN  /\ LastTurn.text # returned =>
                    (LastTurn.text = NO_TEXT /\ Blank(last.resp.output_text))
              /\ ~Blank(returned) => LastTurn.text = returned

NoStoreWitness ==
    /\ Answered
    /\ ConfiguredStore(pre) = ""
    /\ last.resp.output_text = <<"hi">>
    /\ CitationsOf(last.resp) = <<>>
    /\ LastTurn.text = <<"hi">>
    /\ Len(last.calls) = 1

\* C9: no completed ask's turns are missing from the session transcript:
\* the assistant turn of every response the API has given is in it.
NoLostTurns ==
    \A id \in DOMAIN stored :
        \E i \in 1..Len(Chat(session)) :
            /\ "response_id" \in DOMAIN Chat(session)[i]
            /\ Chat(session)[i].response_id = id

\* C10: in every ask, the source named by the system prompt that governs
\* the conversation chain is the source whose vector store the ask queries.
ChainPromptMatchesStore ==
    Asked => last.chain = SelectedSource(pre)

====
